---- MODULE Spec2Model ----
(***************************************************************************)
(* State-machine model of flask-example/app.py: a module-level list of     *)
(* three recipes and five view functions behind Flask's URL map.           *)
(*                                                                         *)
(* A request is a URL plus a query string.  The URL is kept as a base and  *)
(* a trailing segment of characters, so that the <int:recipe_id> converter *)
(* is modelled by what it does (match \d+, then int()), not as the         *)
(* identity.  Each worker handles one request at a time in the steps       *)
(*   idle -> dispatch -> view [-> detail_if] -> done -> idle.              *)
(* All requests use the retrieval method the routes are registered for.    *)
(***************************************************************************)
EXTENDS Integers, Sequences, FiniteSets, TLC

VARIABLES
    recipes,      \* the module-level list `recipes`
    pc,           \* per worker: position in the request/response cycle
    request,      \* per worker: the request being handled
    endpoint,     \* per worker: name of the matched view function, "" if none
    recipe_id,    \* per worker: view argument of recipe_detail
    recipe,       \* per worker: local variable `recipe` of recipe_detail
    response,     \* per worker: the response produced
    last          \* history: a request/response pair delivered earlier in the run

vars == <<recipes, pc, request, endpoint, recipe_id, recipe, response, last>>

----------------------------------------------------------------------------
(* Bounds *)

MaxSegLen == 2          \* longest URL segment after /recipe/ that is enumerated
NumWorkers == 2         \* requests handled concurrently
LookupMaxLen == 3       \* longest list the lookup is exercised on

----------------------------------------------------------------------------
(* Data *)

HTTP_OK == 200
HTTP_NOT_FOUND == 404

None == <<>>
Some(r) == <<r>>

recipes_literal_dup ==
    << [id |-> 1, name |-> "Adobo",     category |-> "Main Course", description |-> "adobo-description"],
       [id |-> 2, name |-> "Kare-Kare", category |-> "Main Course", description |-> "kare-kare-description"],
       [id |-> 2, name |-> "Lumpia",    category |-> "Main Course", description |-> "lumpia-description"] >>

recipes_literal ==
    << [id |-> 1, name |-> "Adobo",     category |-> "Main Course", description |-> "adobo-description"],
       [id |-> 2, name |-> "Kare-Kare", category |-> "Main Course", description |-> "kare-kare-description"],
       [id |-> 3, name |-> "Lumpia",    category |-> "Main Course", description |-> "lumpia-description"] >>

----------------------------------------------------------------------------
(* Requests *)

Digits == {"0", "1", "2", "3", "9"}
Chars == Digits \cup {"-"}

DigitVal == ("0" :> 0) @@ ("1" :> 1) @@ ("2" :> 2) @@ ("3" :> 3) @@ ("9" :> 9)

SegsOfLen(n) == [1..n -> Chars]
Segs == UNION {SegsOfLen(n) : n \in 1..MaxSegLen}
ShortSegs == SegsOfLen(1)

StaticUrls ==
    {[base |-> b, seg |-> <<>>] :
        b \in {"/", "/add-recipe", "/about", "/contact", "/recipe/", "/missing"}}

DetailUrls(segs) == {[base |-> "/recipe/", seg |-> s] : s \in segs}

QueryStrings == {"", "name=Sinigang"}

\* every URL without a query string; the static URLs and the one-character
\* detail URLs also with one
Requests ==
    {[url |-> u, args |-> ""] : u \in StaticUrls \cup DetailUrls(Segs)}
        \cup {[url |-> u, args |-> q] : u \in StaticUrls \cup DetailUrls(ShortSegs), q \in QueryStrings}
ShortRequests == {[url |-> u, args |-> ""] : u \in StaticUrls \cup DetailUrls(ShortSegs)}
LookupRequests == {[url |-> u, args |-> ""] : u \in DetailUrls(ShortSegs)}

NoRequest == [url |-> [base |-> "", seg |-> <<>>], args |-> ""]

----------------------------------------------------------------------------
(* Responses *)

NoResponse == [status |-> 0, text |-> "", template |-> "", context |-> <<>>]

\* A view returning render_template(...): a 200 response carrying the page
\* rendered from the named template and the context handed to it.
render_template(template, context) ==
    [status |-> HTTP_OK, text |-> "", template |-> template, context |-> context]

NotFoundResponseOk ==
    [status |-> HTTP_OK, text |-> "Recipe not found", template |-> "", context |-> <<>>]

\* return "Recipe not found", 404
NotFoundResponse ==
    [status |-> HTTP_NOT_FOUND, text |-> "Recipe not found", template |-> "", context |-> <<>>]

\* The framework's own answer when no URL rule matches: an HTML error page.
DefaultNotFound ==
    [status |-> HTTP_NOT_FOUND, text |-> "<h1>Not Found</h1>", template |-> "", context |-> <<>>]

NoLast == [request |-> NoRequest, response |-> NoResponse]

----------------------------------------------------------------------------
(* URL map *)

\* <int:recipe_id>: the converter's pattern is \d+ (one or more digits, no sign)
IntegerConverter(seg) ==
    /\ Len(seg) >= 1
    /\ \A i \in 1..Len(seg) : seg[i] \in Digits

RECURSIVE to_python(_)
to_python(seg) ==
    IF Len(seg) = 0 THEN 0
    ELSE to_python(SubSeq(seg, 1, Len(seg) - 1)) * 10 + DigitVal[seg[Len(seg)]]

NoMatch == [endpoint |-> "", recipe_id |-> 0]

MatchUrl(url) ==
    CASE url.base = "/" /\ url.seg = <<>>           -> [endpoint |-> "index", recipe_id |-> 0]
      [] url.base = "/recipe/" /\ IntegerConverter(url.seg)
                                                    -> [endpoint |-> "recipe_detail", recipe_id |-> to_python(url.seg)]
      [] url.base = "/add-recipe" /\ url.seg = <<>> -> [endpoint |-> "add_recipe", recipe_id |-> 0]
      [] url.base = "/about" /\ url.seg = <<>>      -> [endpoint |-> "about", recipe_id |-> 0]
      [] url.base = "/contact" /\ url.seg = <<>>    -> [endpoint |-> "contact", recipe_id |-> 0]
      [] OTHER                                      -> NoMatch

----------------------------------------------------------------------------
(* recipe lookup: next((r for r in recipes if r['id'] == recipe_id), None) *)

Matching(rs, id) == SelectSeq(rs, LAMBDA r : r.id = id)

LookupLast(rs, id) ==
    IF Matching(rs, id) = <<>> THEN None
    ELSE Some(Matching(rs, id)[Len(Matching(rs, id))])

LookupOffByOne(rs, id) ==
    IF Matching(rs, id + 1) = <<>> THEN None ELSE Some(Head(Matching(rs, id + 1)))

Lookup(rs, id) ==
    IF Matching(rs, id) = <<>> THEN None ELSE Some(Head(Matching(rs, id)))

\* `if recipe:` -- None is falsy, a non-empty dict is truthy
Truthy(x) == x # None

----------------------------------------------------------------------------
(* Workers *)

Workers == 1..NumWorkers

\* `recipe` is a local of recipe_detail: each call has its own
SharedFrame(w) == 1

Frame(w) == w

Init ==
    /\ recipes = recipes_literal
    /\ pc = [w \in Workers |-> "idle"]
    /\ request = [w \in Workers |-> NoRequest]
    /\ endpoint = [w \in Workers |-> ""]
    /\ recipe_id = [w \in Workers |-> 0]
    /\ recipe = [w \in Workers |-> None]
    /\ response = [w \in Workers |-> NoResponse]
    /\ last = NoLast

\* a request arrives at an idle worker
Receive(w, req) ==
    /\ pc[w] = "idle"
    /\ pc' = [pc EXCEPT ![w] = "dispatch"]
    /\ request' = [request EXCEPT ![w] = req]
    /\ UNCHANGED <<recipes, endpoint, recipe_id, recipe, response, last>>

\* URL matching: pick the view function, or answer 404 when no rule matches
Dispatch(w) ==
    /\ pc[w] = "dispatch"
    /\ LET m == MatchUrl(request[w].url) IN
         IF m = NoMatch
         THEN /\ response' = [response EXCEPT ![w] = DefaultNotFound]
              /\ pc' = [pc EXCEPT ![w] = "done"]
              /\ UNCHANGED <<endpoint, recipe_id>>
         ELSE /\ endpoint' = [endpoint EXCEPT ![w] = m.endpoint]
              /\ recipe_id' = [recipe_id EXCEPT ![w] = m.recipe_id]
              /\ pc' = [pc EXCEPT ![w] = "view"]
              /\ UNCHANGED response
    /\ UNCHANGED <<recipes, request, recipe, last>>

Return(w, resp) ==
    /\ response' = [response EXCEPT ![w] = resp]
    /\ pc' = [pc EXCEPT ![w] = "done"]

index_partial(w) ==
    /\ pc[w] = "view" /\ endpoint[w] = "index"
    /\ Return(w, render_template("index.html", Tail(recipes)))
    /\ UNCHANGED <<recipes, request, endpoint, recipe_id, recipe, last>>

index(w) ==
    /\ pc[w] = "view" /\ endpoint[w] = "index"
    /\ Return(w, render_template("index.html", recipes))
    /\ UNCHANGED <<recipes, request, endpoint, recipe_id, recipe, last>>

recipe_detail_lookup_pop(w) ==
    /\ pc[w] = "view" /\ endpoint[w] = "recipe_detail"
    /\ recipe' = [recipe EXCEPT ![Frame(w)] = Lookup(recipes, recipe_id[w])]
    /\ recipes' = SelectSeq(recipes, LAMBDA r : r.id # recipe_id[w])
    /\ pc' = [pc EXCEPT ![w] = "detail_if"]
    /\ UNCHANGED <<request, endpoint, recipe_id, response, last>>

\* recipe = next(...)
recipe_detail_lookup(w) ==
    /\ pc[w] = "view" /\ endpoint[w] = "recipe_detail"
    /\ recipe' = [recipe EXCEPT ![Frame(w)] = Lookup(recipes, recipe_id[w])]
    /\ pc' = [pc EXCEPT ![w] = "detail_if"]
    /\ UNCHANGED <<recipes, request, endpoint, recipe_id, response, last>>

\* if recipe: ... else: ...
recipe_detail_return(w) ==
    /\ pc[w] = "detail_if"
    /\ IF Truthy(recipe[Frame(w)])
       THEN Return(w, render_template("recipe_detail.html", recipe[Frame(w)]))
       ELSE Return(w, NotFoundResponse)
    /\ UNCHANGED <<recipes, request, endpoint, recipe_id, recipe, last>>

add_recipe_appends(w) ==
    /\ pc[w] = "view" /\ endpoint[w] = "add_recipe"
    /\ Return(w, render_template("add_recipe.html", <<>>))
    /\ recipes' = Append(recipes, [id |-> Len(recipes) + 1, name |-> request[w].args,
                                   category |-> "", description |-> ""])
    /\ UNCHANGED <<request, endpoint, recipe_id, recipe, last>>

add_recipe(w) ==
    /\ pc[w] = "view" /\ endpoint[w] = "add_recipe"
    /\ Return(w, render_template("add_recipe.html", <<>>))
    /\ UNCHANGED <<recipes, request, endpoint, recipe_id, recipe, last>>

about_needs_args(w) ==
    /\ pc[w] = "view" /\ endpoint[w] = "about"
    /\ IF request[w].args = ""
       THEN Return(w, render_template("about.html", <<>>))
       ELSE Return(w, [status |-> 400, text |-> "Bad Request", template |-> "", context |-> <<>>])
    /\ UNCHANGED <<recipes, request, endpoint, recipe_id, recipe, last>>

about(w) ==
    /\ pc[w] = "view" /\ endpoint[w] = "about"
    /\ Return(w, render_template("about.html", <<>>))
    /\ UNCHANGED <<recipes, request, endpoint, recipe_id, recipe, last>>

contact_fails(w) ==
    /\ pc[w] = "view" /\ endpoint[w] = "contact"
    /\ Return(w, [status |-> 500, text |-> "Internal Server Error", template |-> "", context |-> <<>>])
    /\ UNCHANGED <<recipes, request, endpoint, recipe_id, recipe, last>>

contact(w) ==
    /\ pc[w] = "view" /\ endpoint[w] = "contact"
    /\ Return(w, render_template("contact.html", <<>>))
    /\ UNCHANGED <<recipes, request, endpoint, recipe_id, recipe, last>>

\* the response is delivered; the worker's request context is torn down.
\* `last` is an observer of the run, not program state: it keeps the delivered
\* pair or an earlier one, so it ranges over every earlier point of the run.
Complete(w) ==
    /\ pc[w] = "done"
    /\ \/ last' = [request |-> request[w], response |-> response[w]]
       \/ UNCHANGED last
    /\ pc' = [pc EXCEPT ![w] = "idle"]
    /\ request' = [request EXCEPT ![w] = NoRequest]
    /\ endpoint' = [endpoint EXCEPT ![w] = ""]
    /\ recipe_id' = [recipe_id EXCEPT ![w] = 0]
    /\ recipe' = [recipe EXCEPT ![Frame(w)] = None]
    /\ response' = [response EXCEPT ![w] = NoResponse]
    /\ UNCHANGED recipes

Handle(w) ==
    \/ Dispatch(w)
    \/ index(w)
    \/ recipe_detail_lookup(w)
    \/ recipe_detail_return(w)
    \/ add_recipe(w)
    \/ about(w)
    \/ contact(w)
    \/ Complete(w)

\* one request at a time, every URL
Next ==
    \/ \E req \in Requests : Receive(1, req)
    \/ Handle(1)

Spec == Init /\ [][Next]_vars

\* several requests in flight, interleaved step by step
NextConc ==
    \/ \E w \in Workers, req \in ShortRequests : Receive(w, req)
    \/ \E w \in Workers : Handle(w)

SpecConc == Init /\ [][NextConc]_vars

\* the lookup alone, on any short list (duplicate identifiers included)
LookupRecords ==
    {[id |-> i, name |-> n, category |-> "Main Course", description |-> "d"] :
        i \in {1, 2}, n \in {"Adobo", "Lumpia"}}

LookupLists == UNION {[1..n -> LookupRecords] : n \in 0..LookupMaxLen}

InitLookup ==
    /\ recipes \in LookupLists
    /\ pc = [w \in Workers |-> "idle"]
    /\ request = [w \in Workers |-> NoRequest]
    /\ endpoint = [w \in Workers |-> ""]
    /\ recipe_id = [w \in Workers |-> 0]
    /\ recipe = [w \in Workers |-> None]
    /\ response = [w \in Workers |-> NoResponse]
    /\ last = NoLast

NextLookup ==
    \/ \E req \in LookupRequests : Receive(1, req)
    \/ Dispatch(1)
    \/ recipe_detail_lookup(1)
    \/ recipe_detail_return(1)
    \/ Complete(1)

SpecLookup == InitLookup /\ [][NextLookup]_vars

----------------------------------------------------------------------------
(* Vocabulary of the properties *)

Done(w) == pc[w] = "done"

IsDetailUrl(w) == request[w].url.base = "/recipe/"

AllDigits(seg) == Len(seg) >= 1 /\ \A i \in 1..Len(seg) : seg[i] \in Digits

\* an integer as a client writes it: digits, or a minus sign and digits
IsNegativeLiteral(seg) == Len(seg) >= 2 /\ seg[1] = "-" /\ AllDigits(Tail(seg))
IsIntegerLiteral(seg) == AllDigits(seg) \/ IsNegativeLiteral(seg)

RECURSIVE Decimal(_)
Decimal(seg) == IF seg = <<>> THEN 0 ELSE 10 * Decimal(SubSeq(seg, 1, Len(seg) - 1)) + DigitVal[seg[Len(seg)]]

IntegerValue(seg) == IF IsNegativeLiteral(seg) THEN 0 - Decimal(Tail(seg)) ELSE Decimal(seg)

Ids(rs) == {rs[i].id : i \in 1..Len(rs)}
Names(rs) == {rs[i].name : i \in 1..Len(rs)}

SeedName == (1 :> "Adobo") @@ (2 :> "Kare-Kare") @@ (3 :> "Lumpia")
SeedDescription ==
    (1 :> "adobo-description") @@ (2 :> "kare-kare-description") @@ (3 :> "lumpia-description")

IsLiteralNotFound(resp) == resp.text = "Recipe not found" /\ resp.status = 404

----------------------------------------------------------------------------
(* C1 *)

\* C1 as stated: every /recipe/<id> whose id is an integer, negative ones
\* included, that is no record's identifier is answered with the literal body
\* "Recipe not found" and status 404.
C1_AnyIntegerLiteralNotFound ==
    \A w \in Workers :
        (Done(w) /\ IsDetailUrl(w) /\ IsIntegerLiteral(request[w].url.seg)
                 /\ IntegerValue(request[w].url.seg) \notin Ids(recipes))
            => IsLiteralNotFound(response[w])

\* C1 amended: every /recipe/<id> whose id is a non-negative integer that is no
\* record's identifier is answered by recipe_detail with the literal body
\* "Recipe not found" and status 404; a negative id matches no route, so no view
\* runs and the answer is the framework's 404 page, status 404 with another body.
C1_NonNegativeNotFound ==
    \A w \in Workers :
        (Done(w) /\ IsDetailUrl(w)) =>
            /\ (AllDigits(request[w].url.seg) /\ IntegerValue(request[w].url.seg) \notin Ids(recipes))
                  => (IsLiteralNotFound(response[w]) /\ endpoint[w] = "recipe_detail")
            /\ IsNegativeLiteral(request[w].url.seg)
                  => /\ endpoint[w] = ""
                     /\ response[w].status = 404
                     /\ response[w].text # "Recipe not found"

C1_Witness ==
    /\ Done(1) /\ IsDetailUrl(1)
    /\ request[1].url.seg = <<"0">>
    /\ IsLiteralNotFound(response[1])
    /\ last.request.url.seg = <<"-", "1">>
    /\ last.response.status = 404

----------------------------------------------------------------------------
(* C2 *)

\* C2: a request to /recipe/<id> with id 1, 2 or 3 takes the success branch and
\* renders the detail page with exactly the record of that identifier (its name,
\* category and description); it is never answered with the not-found result.
C2_DetailFound ==
    \A w \in Workers :
        (Done(w) /\ IsDetailUrl(w) /\ AllDigits(request[w].url.seg)
                 /\ IntegerValue(request[w].url.seg) \in {1, 2, 3})
            => LET id == IntegerValue(request[w].url.seg) IN
               /\ response[w].status = 200
               /\ response[w].template = "recipe_detail.html"
               /\ response[w].text # "Recipe not found"
               /\ response[w].context =
                    << [id |-> id, name |-> SeedName[id], category |-> "Main Course",
                        description |-> SeedDescription[id]] >>

C2_Witness ==
    /\ Done(1) /\ IsDetailUrl(1)
    /\ request[1].url.seg = <<"3">>
    /\ response[1].template = "recipe_detail.html"
    /\ Len(response[1].context) = 1
    /\ response[1].context[1].name = "Lumpia"

----------------------------------------------------------------------------
(* C3 *)

\* C3: after any sequence of requests to any of the routes the collection
\* equals its value at process start.
C3_CollectionImmutable == recipes = recipes_literal

C3_Witness ==
    /\ last.request.url.base = "/add-recipe"
    /\ last.request.args = "name=Sinigang"
    /\ last.response.status = 200
    /\ Done(1) /\ endpoint[1] = "contact"
    /\ recipes = recipes_literal

----------------------------------------------------------------------------
(* C4 *)

\* C4: in every reachable state the collection holds exactly 3 records, their
\* identifiers are exactly 1, 2 and 3, all positive, and no two records share one.
C4_SeedShape ==
    /\ Len(recipes) = 3
    /\ Ids(recipes) = {1, 2, 3}
    /\ \A i \in 1..Len(recipes) : recipes[i].id > 0
    /\ \A i, j \in 1..Len(recipes) : recipes[i].id = recipes[j].id => i = j

C4_Witness ==
    /\ Done(1) /\ endpoint[1] = "recipe_detail" /\ recipe_id[1] = 2
    /\ last.response = NotFoundResponse
    /\ Len(recipes) = 3

----------------------------------------------------------------------------
(* C5 *)

\* C5: a request to / always succeeds and hands the whole collection to the
\* list page, so all three seeded names are covered, whatever came before.
C5_IndexListsAll ==
    \A w \in Workers :
        (Done(w) /\ request[w].url = [base |-> "/", seg |-> <<>>])
            => /\ response[w].status = 200
               /\ response[w].template = "index.html"
               /\ response[w].context = recipes
               /\ {"Adobo", "Kare-Kare", "Lumpia"} \subseteq Names(response[w].context)

C5_Witness ==
    /\ Done(1) /\ request[1].url.base = "/"
    /\ Len(response[1].context) = 3
    /\ last.request.url.base = "/recipe/"
    /\ last.response.status = 404

----------------------------------------------------------------------------
(* C6 *)

StaticPage == ("/about" :> "about.html") @@ ("/contact" :> "contact.html")
                @@ ("/add-recipe" :> "add_recipe.html")

\* C6: a request to /about, /contact or /add-recipe is answered successfully
\* whatever it carries and whatever came before.
C6_StaticPagesSucceed ==
    \A w \in Workers :
        (Done(w) /\ request[w].url.base \in DOMAIN StaticPage /\ request[w].url.seg = <<>>)
            => /\ response[w].status = 200
               /\ response[w].template = StaticPage[request[w].url.base]

C6_Witness ==
    /\ Done(1) /\ request[1].url.base = "/about"
    /\ request[1].args = "name=Sinigang"
    /\ response[1].status = 200
    /\ last.response.status = 404

----------------------------------------------------------------------------
(* C7 *)

\* reference: scan in list order, first record whose id matches, else none
RECURSIVE FirstMatchFrom(_, _, _)
FirstMatchFrom(rs, id, i) ==
    IF i > Len(rs) THEN None
    ELSE IF rs[i].id = id THEN Some(rs[i])
    ELSE FirstMatchFrom(rs, id, i + 1)

\* C7: the lookup step leaves in `recipe` the first record in list order whose
\* identifier equals the requested one, or the absence signal if none does, and
\* it changes nothing else: not the collection, not the request, not a response.
C7_LookupIsFirstMatch ==
    [][\A w \in Workers :
          (pc[w] = "view" /\ pc'[w] = "detail_if")
              => /\ recipe'[w] = FirstMatchFrom(recipes, recipe_id[w], 1)
                 /\ UNCHANGED <<recipes, request, endpoint, recipe_id, response, last>>]_vars

C7_Witness ==
    /\ pc[1] = "detail_if"
    /\ Len(recipes) = 3
    /\ recipes[1].id # recipe_id[1]
    /\ recipes[2].id = recipe_id[1] /\ recipes[3].id = recipe_id[1]
    /\ recipes[2] # recipes[3]
    /\ recipe[1] = Some(recipes[2])

----------------------------------------------------------------------------
(* C8 *)

----------------------------------------------------------------------------
(* C9 *)

\* the response to a request handled with nothing else in flight
ServeAlone(req) ==
    LET m == MatchUrl(req.url) IN
    CASE m.endpoint = "index"         -> render_template("index.html", recipes_literal)
      [] m.endpoint = "recipe_detail" ->
            IF Lookup(recipes_literal, m.recipe_id) = None THEN NotFoundResponse
            ELSE render_template("recipe_detail.html", Lookup(recipes_literal, m.recipe_id))
      [] m.endpoint = "add_recipe"    -> render_template("add_recipe.html", <<>>)
      [] m.endpoint = "about"         -> render_template("about.html", <<>>)
      [] m.endpoint = "contact"       -> render_template("contact.html", <<>>)
      [] OTHER                        -> DefaultNotFound

\* C9: under any interleaving of concurrently handled requests every request
\* gets the response it would get handled alone, and the collection is unchanged.
C9_InterleavingInvisible ==
    /\ recipes = recipes_literal
    /\ \A w \in Workers : Done(w) => response[w] = ServeAlone(request[w])

C9_Witness ==
    /\ Done(1) /\ Done(2)
    /\ request[1].url = [base |-> "/recipe/", seg |-> <<"2">>]
    /\ request[2].url = [base |-> "/recipe/", seg |-> <<"9">>]
    /\ response[1].status = 200
    /\ response[2].status = 404

----------------------------------------------------------------------------
(* C10 *)

\* C10: a request is answered as the same request was answered at any earlier
\* point of the run, and recipe_detail answers not-found exactly when the
\* identifier is none of 1, 2, 3.
C10_HistoryIndependent ==
    \A w \in Workers :
        Done(w) =>
            /\ (last # NoLast /\ last.request = request[w]) => response[w] = last.response
            /\ endpoint[w] = "recipe_detail"
                  => (IsLiteralNotFound(response[w]) <=> recipe_id[w] \notin {1, 2, 3})
            /\ endpoint[w] = "recipe_detail"
                  => (response[w].status = 200 <=> recipe_id[w] \in {1, 2, 3})

C10_Witness ==
    /\ Done(1) /\ endpoint[1] = "recipe_detail" /\ recipe_id[1] = 1
    /\ last.request = request[1]
    /\ last.response = response[1]
    /\ response[1].status = 200

====
